---- MODULE Spec2Model ----
(***************************************************************************)
(* Rule composition (RuleSet.rules, RuleSet.effective_rules) and the       *)
(* per-repository execution engine (Linter) of repolint.                   *)
(***************************************************************************)
EXTENDS Integers, Sequences, FiniteSets, TLC

(* ---------------------------------------------------------------------- *)
(* Bounds and input domains                                               *)
(* ---------------------------------------------------------------------- *)

\* Total number of children (rules and nested sets) over all RuleSets, for
\* each of the three specifications of the composition.
MaxItems == 4

MaxExclusiveItems == 4

MaxScenarioItems == 5

\* Total number of declared exclusions over the rule pool of SpecExclusive.
MaxDeclared == 3
\* Bound on the children of the trees on which rules() and effective_rules()
\* are called as steps.
MaxResolveItems == 3

RuleSetIds == {"RS001", "RS002", "RS003"}

ExclusiveRuleSetIds == {"RS001", "RS002"}

RuleIds == {"R001", "R002", "R003"}

AllRuleIds == RuleIds \cup {"R004"}

Descriptions == {"first", "second"}

Repositories == <<"repo1", "repo2">>

ExceptionTexts == {"Rule failed", "timeout"}

Responses == {"y", "YES", "n", ""}

VARIABLES
    items,            \* RuleSet._items of every constructed RuleSet, by rule_set_id
    pool,             \* the Rule objects that have been constructed
    returned,         \* kind, RuleSet and value of the last rules() or
                      \* effective_rules() call since the tree was last extended
    rule_sets,        \* RuleManager._rule_sets: registered id -> RuleSet
    config,           \* default_rule_set and repository_rule_sets of the configuration
    dry_run,          \* Linter._dry_run
    non_interactive,  \* Linter._non_interactive
    fix,              \* Linter._fix
    pc,               \* position of the run inside lint_repositories / check_repository
    repo_index,       \* position of the loop over repositories
    pending,          \* the sequence rule_set.rules() iterated by check_repository
    rule_index,       \* position of the loop over the rules
    rule_results,     \* the dictionary results of check_repository
    results,          \* the dictionary results of lint_repositories
    calls,            \* every call of check, input and fix so far, with its outcome
    output            \* the lines printed so far, by kind

treeVars == <<items, pool, returned>>

linterVars == <<rule_sets, config, dry_run, non_interactive, fix, pc, repo_index,
                pending, rule_index, rule_results, results, calls, output>>

vars == <<items, pool, returned, rule_sets, config, dry_run, non_interactive, fix, pc,
          repo_index, pending, rule_index, rule_results, results, calls, output>>

(* ---------------------------------------------------------------------- *)
(* Rule and RuleSet (rules/base.py)                                       *)
(* ---------------------------------------------------------------------- *)

\* Rule.__init__ plus the class attribute mutually_exclusive_with.
Rule(rule_id, description, exclusive) ==
    [rule_id |-> rule_id, description |-> description,
     mutually_exclusive_with |-> exclusive]

RuleItem(rule) == <<"rule", rule>>

RuleSetItem(rule_set) == <<"set", rule_set>>

Reverse(seq) == [i \in 1..Len(seq) |-> seq[Len(seq) + 1 - i]]

Range(seq) == {seq[i] : i \in 1..Len(seq)}

RuleIdsOf(seq) == [i \in 1..Len(seq) |-> seq[i].rule_id]

RECURSIVE SumLen(_, _)
SumLen(f, S) ==
    IF S = {} THEN 0
    ELSE LET s == CHOOSE x \in S : TRUE IN Len(f[s]) + SumLen(f, S \ {s})

TotalItems == SumLen(items, DOMAIN items)

\* The RuleSets reachable from rule_set through nesting (itself included).
RECURSIVE Nested(_)
Nested(rule_set) ==
    {rule_set} \cup
    UNION {Nested(items[rule_set][i][2]) :
             i \in {j \in 1..Len(items[rule_set]) : items[rule_set][j][1] = "set"}}

\* The loop of RuleSet.rules: rules in child-list order, a nested RuleSet
\* replaced by its own rules().
RECURSIVE rules(_)
RECURSIVE Collect(_, _)
Collect(its, k) ==
    IF k > Len(its) THEN <<>>
    ELSE (IF its[k][1] = "rule" THEN <<its[k][2]>> ELSE rules(its[k][2]))
         \o Collect(its, k + 1)

\* The generator remove_dupes, fed with reversed(rules): yields a rule when
\* its rule_id has not been seen yet.
RECURSIVE RemoveDupesScan(_, _)
RemoveDupesScan(rev, seen) ==
    IF rev = <<>> THEN <<>>
    ELSE IF Head(rev).rule_id \in seen
         THEN RemoveDupesScan(Tail(rev), seen)
         ELSE <<Head(rev)>> \o RemoveDupesScan(Tail(rev), seen \cup {Head(rev).rule_id})

\* remove_dupes without the seen set: every occurrence is kept.
remove_dupes_keep_all(rs) == Reverse(rs)

\* remove_dupes scanning from the front: the first occurrence is kept.
remove_dupes_first_wins(rs) == Reverse(RemoveDupesScan(rs, {}))

remove_dupes(rs) == RemoveDupesScan(Reverse(rs), {})

\* rules() without the final reversed().
rules_not_restored(rule_set) == remove_dupes(Collect(items[rule_set], 1))

rules(rule_set) == Reverse(remove_dupes(Collect(items[rule_set], 1)))

\* dict.get(key, set())
Get(dict, key) == IF key \in DOMAIN dict THEN dict[key] ELSE {}

\* The dictionary without the reverse entries.
mutually_exclusive_rules_one_way(all_rules) ==
    LET keys == {all_rules[i].rule_id :
                   i \in {j \in 1..Len(all_rules) :
                            all_rules[j].mutually_exclusive_with # {}}}
    IN [k \in keys |->
          UNION {all_rules[i].mutually_exclusive_with :
                   i \in {j \in 1..Len(all_rules) : all_rules[j].rule_id = k}}]

\* The dictionary mutually_exclusive_rules built by effective_rules: every
\* declaration of a resolved rule is recorded in both directions.
mutually_exclusive_rules(all_rules) ==
    LET declared == {<<all_rules[i].rule_id, id>> :
                       i \in 1..Len(all_rules), id \in AllRuleIds}
        pairs == {p \in declared :
                    \E i \in 1..Len(all_rules) :
                       /\ all_rules[i].rule_id = p[1]
                       /\ p[2] \in all_rules[i].mutually_exclusive_with}
        keys == {p[1] : p \in pairs} \cup {p[2] : p \in pairs}
    IN [k \in keys |-> {p[2] : p \in {q \in pairs : q[1] = k}}
                       \cup {p[1] : p \in {q \in pairs : q[2] = k}}]

\* The generator filter_exclusive_rules, fed with reversed(rules).
RECURSIVE FilterScan(_, _, _)
FilterScan(rev, dict, excluded_rules) ==
    IF rev = <<>> THEN <<>>
    ELSE IF Head(rev).rule_id \in excluded_rules
         THEN FilterScan(Tail(rev), dict, excluded_rules)
         ELSE <<Head(rev)>>
              \o FilterScan(Tail(rev), dict,
                            excluded_rules \cup Get(dict, Head(rev).rule_id))

\* The scan in which a dropped rule still adds its exclusions.
RECURSIVE FilterScanAll(_, _, _)
FilterScanAll(rev, dict, excluded_rules) ==
    IF rev = <<>> THEN <<>>
    ELSE (IF Head(rev).rule_id \in excluded_rules THEN <<>> ELSE <<Head(rev)>>)
         \o FilterScanAll(Tail(rev), dict,
                          excluded_rules \cup Get(dict, Head(rev).rule_id))

\* filter_exclusive_rules in which dropped rules exclude too.
filter_exclusive_rules_dropped_exclude(rs, dict) == FilterScanAll(Reverse(rs), dict, {})

\* filter_exclusive_rules scanning from the front: the earlier rule wins.
filter_exclusive_rules_forward(rs, dict) == Reverse(FilterScan(rs, dict, {}))

filter_exclusive_rules(rs, dict) == FilterScan(Reverse(rs), dict, {})

\* effective_rules without the final reversed().
EffectiveOf_not_restored(all_rules) ==
    filter_exclusive_rules(all_rules, mutually_exclusive_rules(all_rules))

\* effective_rules applied to an already resolved sequence.
EffectiveOf(all_rules) ==
    Reverse(filter_exclusive_rules(all_rules, mutually_exclusive_rules(all_rules)))

effective_rules(rule_set) == EffectiveOf(rules(rule_set))

(* ---------------------------------------------------------------------- *)
(* Construction of the tree                                               *)
(* ---------------------------------------------------------------------- *)

add_rule(rule_set, rule) ==
    /\ items' = [items EXCEPT ![rule_set] = Append(@, RuleItem(rule))]
    /\ UNCHANGED pool

\* Nesting that would make the tree cyclic is not part of the input domain:
\* rules() does not terminate on it.
add_rule_set(rule_set, nested) ==
    /\ rule_set \notin Nested(nested)
    /\ items' = [items EXCEPT ![rule_set] = Append(@, RuleSetItem(nested))]
    /\ UNCHANGED pool

AddRule(max) ==
    /\ pc = "idle"
    /\ TotalItems < max
    /\ \E s \in DOMAIN items, r \in pool : add_rule(s, r)
    /\ returned' = <<>>
    /\ UNCHANGED linterVars

AddRuleSet(max) ==
    /\ pc = "idle"
    /\ TotalItems < max
    /\ \E s \in DOMAIN items, t \in DOMAIN items : add_rule_set(s, t)
    /\ returned' = <<>>
    /\ UNCHANGED linterVars

\* No Linter has been constructed.
NoLinter ==
    /\ rule_sets = <<>>
    /\ config = [default_rule_set |-> "", repository_rule_sets |-> <<>>]
    /\ dry_run = FALSE
    /\ non_interactive = FALSE
    /\ fix = FALSE
    /\ pc = "idle"
    /\ repo_index = 0
    /\ pending = <<>>
    /\ rule_index = 0
    /\ rule_results = <<>>
    /\ results = <<>>
    /\ calls = <<>>
    /\ output = <<>>

Next == AddRule(MaxItems) \/ AddRuleSet(MaxItems)

NextExclusive == AddRule(MaxExclusiveItems) \/ AddRuleSet(MaxExclusiveItems)

NextScenario == AddRule(MaxScenarioItems) \/ AddRuleSet(MaxScenarioItems)

\* Composition: two Rule objects per rule id, none declaring exclusions.
Init ==
    /\ items = [s \in RuleSetIds |-> <<>>]
    /\ pool = {Rule(id, d, {}) : id \in RuleIds, d \in Descriptions}
    /\ returned = <<>>
    /\ NoLinter

Spec == Init /\ [][Next]_vars

\* Exclusion: one Rule object per rule id, with any declarations (a rule may
\* name itself or an id that no rule carries).
RECURSIVE SumCard(_, _)
SumCard(decl, S) ==
    IF S = {} THEN 0
    ELSE LET id == CHOOSE x \in S : TRUE
         IN Cardinality(decl[id]) + SumCard(decl, S \ {id})

Declarations ==
    {decl \in [RuleIds -> SUBSET RuleIds] :
        SumCard(decl, RuleIds) <= MaxDeclared}

InitExclusive ==
    /\ items = [s \in ExclusiveRuleSetIds |-> <<>>]
    /\ \E decl \in Declarations :
          pool = {Rule(id, "first", decl[id]) : id \in RuleIds}
    /\ returned = <<>>
    /\ NoLinter

SpecExclusive == InitExclusive /\ [][NextExclusive]_vars

\* The rules of test_rule_set_effective_rules: R001 and R002 exclude each
\* other, R003 excludes R004, R004 declares nothing.
InitScenario ==
    /\ items = [s \in ExclusiveRuleSetIds |-> <<>>]
    /\ pool = {Rule("R001", "first", {"R002"}), Rule("R002", "first", {"R001"}),
               Rule("R003", "first", {"R004"}), Rule("R004", "first", {})}
    /\ returned = <<>>
    /\ NoLinter

SpecScenario == InitScenario /\ [][NextScenario]_vars

\* rules() that keeps the resolved sequence as the RuleSet's new child list.
CallRules_in_place ==
    /\ pc = "idle"
    /\ \E s \in DOMAIN items :
          /\ returned' = <<"rules", s, rules(s)>>
          /\ items' = [items EXCEPT
                         ![s] = [i \in 1..Len(rules(s)) |-> RuleItem(rules(s)[i])]]
    /\ UNCHANGED pool
    /\ UNCHANGED linterVars

\* A call of rule_set.rules(): builds a new list from _items and the nested
\* sets' rules(); assigns to no attribute.
CallRules ==
    /\ pc = "idle"
    /\ \E s \in DOMAIN items : returned' = <<"rules", s, rules(s)>>
    /\ UNCHANGED <<items, pool>>
    /\ UNCHANGED linterVars

\* A call of rule_set.effective_rules(): works on list(self.rules()) and a
\* local dictionary; assigns to no attribute.
CallEffectiveRules ==
    /\ pc = "idle"
    /\ \E s \in DOMAIN items : returned' = <<"effective_rules", s, effective_rules(s)>>
    /\ UNCHANGED <<items, pool>>
    /\ UNCHANGED linterVars

NextResolve ==
    \/ AddRule(MaxResolveItems)
    \/ AddRuleSet(MaxResolveItems)
    \/ CallRules
    \/ CallEffectiveRules

\* Resolution as a step: three RuleSets, one Rule object per rule id, R001
\* and R002 excluding each other.
InitResolve ==
    /\ items = [s \in RuleSetIds |-> <<>>]
    /\ pool = {Rule("R001", "first", {"R002"}), Rule("R002", "first", {"R001"}),
               Rule("R003", "first", {})}
    /\ returned = <<>>
    /\ NoLinter

SpecResolve == InitResolve /\ [][NextResolve]_vars

(* ---------------------------------------------------------------------- *)
(* Linter (linter.py)                                                     *)
(* ---------------------------------------------------------------------- *)

RuleCheckResult(res, message, fix_available) ==
    [result |-> res, message |-> message, fix_available |-> fix_available]

\* What a call of Rule.check can do: return any RuleCheckResult or raise.
CheckOutcomes ==
    {<<"return", RuleCheckResult(res, <<"checked">>, fa)>> :
        res \in {"PASSED", "FAILED", "SKIPPED"}, fa \in BOOLEAN}
    \cup {<<"raise", e>> : e \in ExceptionTexts}

\* What a call of Rule.fix can do: return (success, message) or raise.
FixOutcomes ==
    {<<"return", success>> : success \in BOOLEAN}
    \cup {<<"raise", e>> : e \in ExceptionTexts}

\* RuleManager.get_rule_set: None is the empty tuple.
None == <<>>

get_rule_set(rule_set_id) ==
    IF rule_set_id \in DOMAIN rule_sets THEN <<rule_sets[rule_set_id]>> ELSE None

get_rule_set_for_repository(name) ==
    LET specific == IF name \in DOMAIN config.repository_rule_sets
                    THEN get_rule_set(config.repository_rule_sets[name])
                    ELSE None
        fallback == IF config.default_rule_set # ""
                    THEN get_rule_set(config.default_rule_set)
                    ELSE None
    IN IF specific # None
       THEN <<config.repository_rule_sets[name], specific[1]>>
       ELSE IF fallback # None
       THEN <<config.default_rule_set, fallback[1]>>
       ELSE None

create_context(repository) == [repository |-> repository, dry_run |-> dry_run]

\* The synthesized result offering a fix.
RuleExecutionFailed_fixable(e) ==
    RuleCheckResult("FAILED", <<"Rule execution failed: ", e>>, TRUE)

\* The result check_repository synthesizes when Rule.check raises.
RuleExecutionFailed(e) ==
    RuleCheckResult("FAILED", <<"Rule execution failed: ", e>>, FALSE)

repo == Repositories[repo_index]

rule == pending[rule_index]

Log(op, outcome) == Append(calls, <<op, repo, rule.rule_id, outcome>>)

\* Printed lines, by kind, with the repository and (inside the loop over
\* the rules) the rule they are about.
Lines(kinds) ==
    [i \in 1..Len(kinds) |->
        <<kinds[i], repo,
          IF rule_index \in 1..Len(pending) THEN rule.rule_id ELSE "">>]

\* An empty entry instead of the error.
NoRuleSetEntry_empty == <<>>

\* The entry lint_repositories stores for a repository without rule set.
NoRuleSetEntry == [error |-> <<"No rule set found for repository">>]

\* The decision without the dry-run branch.
AfterCheck_ignoring_dry_run(result) ==
    IF result.fix_available
    THEN IF non_interactive THEN "fix" ELSE "prompt"
    ELSE "next"

\* The decision prompting in non-interactive mode too.
AfterCheck_always_prompt(result) ==
    IF result.fix_available
    THEN IF dry_run THEN "dry run" ELSE "prompt"
    ELSE "next"

\* What follows a check whose result is stored: the dry-run note, the fix
\* without prompt, the prompt, or nothing.
AfterCheck(result) ==
    IF result.fix_available
    THEN IF dry_run THEN "dry run"
         ELSE IF non_interactive THEN "fix" ELSE "prompt"
    ELSE "next"

\* lint_repositories giving up at the first repository that has an error
\* entry.
NextRepository_abort_on_error(entry) ==
    /\ results' = (repo :> entry) @@ results
    /\ repo_index' = repo_index + 1
    /\ pc' = IF "error" \in DOMAIN entry THEN "done" ELSE "select"
    /\ pending' = <<>>
    /\ rule_index' = 0
    /\ rule_results' = <<>>

\* lint_repositories stores a repository's entry and turns to the next one.
NextRepository(entry) ==
    /\ results' = (repo :> entry) @@ results
    /\ repo_index' = repo_index + 1
    /\ pc' = "select"
    /\ pending' = <<>>
    /\ rule_index' = 0
    /\ rule_results' = <<>>

\* The last iteration's result map is not the one that is returned.
NextRule_results_lost(new_rule_results) ==
    IF rule_index < Len(pending)
    THEN /\ rule_index' = rule_index + 1
         /\ pc' = "check"
         /\ rule_results' = new_rule_results
         /\ UNCHANGED <<results, repo_index, pending>>
    ELSE NextRepository(rule_results)

\* The end of one iteration of the loop over the rules: the next rule, or
\* the return of check_repository when the rules are exhausted.
NextRule(new_rule_results) ==
    IF rule_index < Len(pending)
    THEN /\ rule_index' = rule_index + 1
         /\ pc' = "check"
         /\ rule_results' = new_rule_results
         /\ UNCHANGED <<results, repo_index, pending>>
    ELSE NextRepository(new_rule_results)

\* The rules of the repository are iterated in reverse resolved order.
LintRepository_reversed ==
    /\ pc = "select"
    /\ repo_index <= Len(Repositories)
    /\ LET rule_set_info == get_rule_set_for_repository(repo)
       IN IF rule_set_info = None
          THEN /\ NextRepository(NoRuleSetEntry)
               /\ output' = output \o Lines(<<"no rule set">>)
          ELSE \/ /\ rules(rule_set_info[2]) # <<>>
                  /\ pending' = Reverse(rules(rule_set_info[2]))
                  /\ rule_index' = 1
                  /\ rule_results' = <<>>
                  /\ pc' = "check"
                  /\ output' = output \o Lines(<<"header">>)
                  /\ UNCHANGED <<results, repo_index>>
               \/ /\ rules(rule_set_info[2]) = <<>>
                  /\ NextRepository(<<>>)
                  /\ output' = output \o Lines(<<"header">>)
               \/ \E e \in ExceptionTexts :
                     /\ NextRepository([error |-> <<"Failed to check repository: ", e>>])
                     /\ output' = output \o Lines(<<"header", "Error">>)
    /\ UNCHANGED <<calls, treeVars, rule_sets, config, dry_run, non_interactive, fix>>

\* One iteration of the loop of lint_repositories up to the first rule's
\* check: rule set selection, context creation, start of rule_set.rules().
\* check_repository may raise before any rule is checked (create_context
\* passes dry_run to RuleContext, which rules/context.py does not declare);
\* lint_repositories catches it and records an error entry.
LintRepository ==
    /\ pc = "select"
    /\ repo_index <= Len(Repositories)
    /\ LET rule_set_info == get_rule_set_for_repository(repo)
       IN IF rule_set_info = None
          THEN /\ NextRepository(NoRuleSetEntry)
               /\ output' = output \o Lines(<<"no rule set">>)
          ELSE \/ /\ rules(rule_set_info[2]) # <<>>
                  /\ pending' = rules(rule_set_info[2])
                  /\ rule_index' = 1
                  /\ rule_results' = <<>>
                  /\ pc' = "check"
                  /\ output' = output \o Lines(<<"header">>)
                  /\ UNCHANGED <<results, repo_index>>
               \/ /\ rules(rule_set_info[2]) = <<>>
                  /\ NextRepository(<<>>)
                  /\ output' = output \o Lines(<<"header">>)
               \/ \E e \in ExceptionTexts :
                     /\ NextRepository([error |-> <<"Failed to check repository: ", e>>])
                     /\ output' = output \o Lines(<<"header", "Error">>)
    /\ UNCHANGED <<calls, treeVars, rule_sets, config, dry_run, non_interactive, fix>>

\* rule.check(context) and everything up to the next call: the result is
\* stored and printed, and result.fix_available alone decides what follows.
Check ==
    /\ pc = "check"
    /\ \E outcome \in CheckOutcomes :
          LET result == IF outcome[1] = "raise"
                        THEN RuleExecutionFailed(outcome[2])
                        ELSE outcome[2]
              stored == (rule.rule_id :> result) @@ rule_results
              printed == (IF outcome[1] = "raise"
                          THEN <<"Error executing rule">> ELSE <<>>)
                         \o <<"status">>
          IN /\ calls' = Log("check", outcome)
             /\ IF AfterCheck(result) = "next"
                THEN /\ output' = output \o Lines(printed)
                     /\ NextRule(stored)
                ELSE IF AfterCheck(result) = "dry run"
                THEN /\ output' = output
                           \o Lines(printed \o <<"fix description", "dry run">>)
                     /\ NextRule(stored)
                ELSE /\ output' = output \o Lines(printed \o <<"fix description">>)
                     /\ pc' = AfterCheck(result)
                     /\ rule_results' = stored
                     /\ UNCHANGED <<results, repo_index, pending, rule_index>>
    /\ UNCHANGED <<treeVars, rule_sets, config, dry_run, non_interactive, fix>>

\* input("Apply this fix? [y/N]: ").lower() in ['y', 'yes']
Lower(response) ==
    IF response = "YES" THEN "yes"
    ELSE IF response = "Y" THEN "y"
    ELSE response

\* A prompt whose default answer is yes.
should_fix_default_yes(response) == Lower(response) \notin {"n", "no"}

should_fix(response) == Lower(response) \in {"y", "yes"}

Prompt ==
    /\ pc = "prompt"
    /\ \E response \in Responses :
          LET confirmed == should_fix(response)
          IN /\ calls' = Log("input", response)
             /\ IF confirmed
                THEN /\ pc' = "fix"
                     /\ UNCHANGED <<output, results, repo_index, pending, rule_index,
                                    rule_results>>
                ELSE /\ output' = output \o Lines(<<"Fix skipped">>)
                     /\ NextRule(rule_results)
    /\ UNCHANGED <<treeVars, rule_sets, config, dry_run, non_interactive, fix>>

\* How a call of fix ended: "raised", or the returned success as "fixed" or
\* "failed".
FixKind(outcome) ==
    IF outcome[1] = "raise" THEN "raised"
    ELSE IF outcome[2] THEN "fixed" ELSE "failed"

\* The fix reporting both kinds of failure with the same line.
FixLine_one_message(outcome) ==
    IF outcome[1] = "return" /\ outcome[2] THEN "Fixed" ELSE "Fix error"

\* The line printed for the outcome of a fix.
FixLine(outcome) ==
    IF outcome[1] = "raise" THEN "Fix error"
    ELSE IF outcome[2] THEN "Fixed" ELSE "Fix failed"

\* A fix that returned failure is attempted a second time.
Fix_retry ==
    /\ pc = "fix"
    /\ \E outcome \in FixOutcomes :
          /\ calls' = Log("fix", FixKind(outcome))
          /\ output' = output \o Lines(<<FixLine(outcome)>>)
          /\ IF outcome[1] = "return" /\ outcome[2]
             THEN /\ pc' = "recheck"
                  /\ UNCHANGED <<results, repo_index, pending, rule_index, rule_results>>
             ELSE IF outcome[1] = "return" /\ calls[Len(calls)][1] # "fix"
             THEN UNCHANGED <<pc, results, repo_index, pending, rule_index, rule_results>>
             ELSE NextRule(rule_results)
    /\ UNCHANGED <<treeVars, rule_sets, config, dry_run, non_interactive, fix>>

\* rule.fix(context): only a returned success leads to the second check.
Fix ==
    /\ pc = "fix"
    /\ \E outcome \in FixOutcomes :
          /\ calls' = Log("fix", FixKind(outcome))
          /\ output' = output \o Lines(<<FixLine(outcome)>>)
          /\ IF outcome[1] = "return" /\ outcome[2]
             THEN /\ pc' = "recheck"
                  /\ UNCHANGED <<results, repo_index, pending, rule_index, rule_results>>
             ELSE NextRule(rule_results)
    /\ UNCHANGED <<treeVars, rule_sets, config, dry_run, non_interactive, fix>>

\* The second check whose result is printed but not stored.
Recheck_not_stored ==
    /\ pc = "recheck"
    /\ \E outcome \in CheckOutcomes :
          /\ calls' = Log("check", outcome)
          /\ output' = output \o Lines(<<IF outcome[1] = "raise"
                                         THEN "Fix error" ELSE "status">>)
          /\ NextRule(rule_results)
    /\ UNCHANGED <<treeVars, rule_sets, config, dry_run, non_interactive, fix>>

\* The second rule.check(context), inside the try block of the fix: an
\* exception is caught by the handler of the fix and nothing is stored.
Recheck ==
    /\ pc = "recheck"
    /\ \E outcome \in CheckOutcomes :
          /\ calls' = Log("check", outcome)
          /\ IF outcome[1] = "raise"
             THEN /\ output' = output \o Lines(<<"Fix error">>)
                  /\ NextRule(rule_results)
             ELSE /\ output' = output \o Lines(<<"status">>)
                  /\ NextRule((rule.rule_id :> outcome[2]) @@ rule_results)
    /\ UNCHANGED <<treeVars, rule_sets, config, dry_run, non_interactive, fix>>

\* lint_repositories returns.
Return ==
    /\ pc = "select"
    /\ repo_index > Len(Repositories)
    /\ pc' = "done"
    /\ UNCHANGED <<treeVars, rule_sets, config, dry_run, non_interactive, fix,
                   repo_index, pending, rule_index, rule_results, results, calls,
                   output>>

NextLinter == LintRepository \/ Check \/ Prompt \/ Fix \/ Recheck \/ Return

\* A Linter over a registry of two rule sets, RS002 nesting RS001, before
\* lint_repositories(Repositories) starts; any flags, and a configuration
\* with or without default and repository-specific rule set ids.
InitLinter ==
    /\ items = [RS001 |-> <<RuleItem(Rule("R001", "first", {}))>>,
                RS002 |-> <<RuleSetItem("RS001"), RuleItem(Rule("R002", "first", {}))>>,
                RS003 |-> <<>>]
    /\ pool = {Rule("R001", "first", {}), Rule("R002", "first", {})}
    /\ returned = <<>>
    /\ rule_sets = [RS001 |-> "RS001", RS002 |-> "RS002", RS003 |-> "RS003"]
    /\ \E default \in {"RS001", ""},
          specific \in {<<>>, [repo1 |-> "RS002"], [repo1 |-> "RS009"],
                        [repo2 |-> "RS003"], [repo2 |-> "RS001"]} :
          config = [default_rule_set |-> default, repository_rule_sets |-> specific]
    /\ dry_run \in BOOLEAN
    /\ non_interactive \in BOOLEAN
    /\ fix \in BOOLEAN
    /\ pc = "select"
    /\ repo_index = 1
    /\ pending = <<>>
    /\ rule_index = 0
    /\ rule_results = <<>>
    /\ results = <<>>
    /\ calls = <<>>
    /\ output = <<>>

SpecLinter == InitLinter /\ [][NextLinter]_vars

(* ---------------------------------------------------------------------- *)
(* RuleManager.load_rule_sets_from_config (rule_manager.py)               *)
(* ---------------------------------------------------------------------- *)

\* Bound on the number of entries of config.rule_sets.
MaxEntries == 2

\* RuleManager._rules: the rule ids with a registered rule class.
RegisteredRuleIds == {"R001", "R002"}

\* The rule set discovered from an entry point before any configuration is
\* loaded.
DiscoveredRuleSetId == "RS003"

DiscoveredRules == <<Rule("R002", "second", {})>>

\* RuleSetConfig.rules and RuleSetConfig.rule_sets of an entry.
RuleLists == {<<>>, <<"R001">>, <<"INVALID">>}

NestedLists ==
    {<<>>} \cup {<<n>> : n \in RuleSetIds \cup {"RS009"}}
           \cup {<<"RS009", n>> : n \in RuleSetIds}

RuleSetConfig(rule_set_id, rule_ids, nested_ids) ==
    [rule_set_id |-> rule_set_id, rules |-> rule_ids, rule_sets |-> nested_ids]

\* The rule set ids an entry with the given id names as nested.
Refs(entries, id) ==
    UNION {Range(entries[k].rule_sets) :
             k \in {j \in 1..Len(entries) : entries[j].rule_set_id = id}}

RECURSIVE ReachIn(_, _, _)
ReachIn(entries, S, n) ==
    IF n = 0 THEN S
    ELSE ReachIn(entries, S \cup UNION {Refs(entries, x) : x \in S}, n - 1)

\* No entry names itself as nested, directly or through other entries: the
\* third pass would build a cyclic tree, on which rules() does not terminate.
Acyclic(entries) ==
    \A k \in 1..Len(entries) :
        entries[k].rule_set_id
           \notin ReachIn(entries, Refs(entries, entries[k].rule_set_id), Len(entries))

\* config.rule_sets: a dictionary, iterated in insertion order.
Configurations ==
    {entries \in UNION {[1..n -> {RuleSetConfig(id, rs, ns) :
                                    id \in RuleSetIds, rs \in RuleLists,
                                    ns \in NestedLists}] : n \in 0..MaxEntries} :
        /\ \A i, j \in 1..Len(entries) :
              entries[i].rule_set_id = entries[j].rule_set_id => i = j
        /\ Acyclic(entries)}

\* RuleSetFactory.create_rule_set: ValueError when a rule id has no
\* registered class, otherwise a RuleSet holding one Rule per id.
RuleSetFactory_create_rule_set(rule_ids) ==
    IF \E i \in 1..Len(rule_ids) : rule_ids[i] \notin RegisteredRuleIds
    THEN <<"raise", "ValueError">>
    ELSE <<"return", [i \in 1..Len(rule_ids) |-> RuleItem(Rule(rule_ids[i], "first", {}))]>>

\* RuleManager.create_rule_set: registers what the factory returns.
create_rule_set(st, rule_set_id, rule_ids) ==
    LET made == RuleSetFactory_create_rule_set(rule_ids)
    IN IF made[1] = "raise"
       THEN <<"raise", st>>
       ELSE <<"return", [st EXCEPT !.items = (rule_set_id :> made[2]) @@ @,
                                   !.rule_sets = (rule_set_id :> rule_set_id) @@ @]>>

Without(dict, key) == [k \in DOMAIN dict \ {key} |-> dict[k]]

Printed(st, kind, id) == [st EXCEPT !.output = Append(@, <<kind, id, "">>)]

\* First pass: the entries that list rules.
RECURSIVE first_pass(_, _, _)
first_pass(entries, k, st) ==
    IF k > Len(entries) THEN st
    ELSE LET e == entries[k]
             created == create_rule_set(st, e.rule_set_id, e.rules)
         IN first_pass(entries, k + 1,
               IF e.rule_set_id \in DOMAIN st.rule_sets
               THEN Printed(st, "Warning: already exists", e.rule_set_id)
               ELSE IF e.rules = <<>> THEN st
               ELSE IF created[1] = "raise"
               THEN Printed(st, "Error creating rule set", e.rule_set_id)
               ELSE created[2])

\* Second pass: the entries not registered yet that list nested rule sets.
RECURSIVE second_pass(_, _, _)
second_pass(entries, k, st) ==
    IF k > Len(entries) THEN st
    ELSE LET e == entries[k]
         IN second_pass(entries, k + 1,
               IF e.rule_set_id \in DOMAIN st.rule_sets \/ e.rule_sets = <<>>
               THEN st
               ELSE create_rule_set(st, e.rule_set_id, <<>>)[2])

\* The loop over rule_set_config.rule_sets of the third pass; the result
\* carries has_valid_nested.
RECURSIVE add_nested(_, _, _, _, _)
add_nested(rule_set_id, nested_ids, n, st, has_valid_nested) ==
    IF n > Len(nested_ids) THEN <<st, has_valid_nested>>
    ELSE IF nested_ids[n] \notin DOMAIN st.rule_sets
    THEN add_nested(rule_set_id, nested_ids, n + 1,
                    Printed(st, "Warning: Nested rule set not found", rule_set_id),
                    has_valid_nested)
    ELSE add_nested(rule_set_id, nested_ids, n + 1,
                    [st EXCEPT !.items[st.rule_sets[rule_set_id]] =
                                  Append(@, RuleSetItem(st.rule_sets[nested_ids[n]]))],
                    TRUE)

\* Third pass: nested rule sets are added to the registered entries, and an
\* entry without rules and without a valid nested set is removed.
RECURSIVE third_pass(_, _, _)
third_pass(entries, k, st) ==
    IF k > Len(entries) THEN st
    ELSE LET e == entries[k]
             added == add_nested(e.rule_set_id, e.rule_sets, 1, st, FALSE)
         IN third_pass(entries, k + 1,
               IF e.rule_sets = <<>> \/ e.rule_set_id \notin DOMAIN st.rule_sets
               THEN st
               ELSE IF e.rules = <<>> /\ ~added[2]
               THEN [added[1] EXCEPT !.rule_sets = Without(@, e.rule_set_id)]
               ELSE added[1])

\* The registry, the RuleSet objects and the printed lines.
Registry == [rule_sets |-> rule_sets, items |-> items, output |-> output]

\* The Rule objects held directly by the RuleSets.
RulesHeld(its) ==
    UNION {{its[id][k][2] : k \in {j \in 1..Len(its[id]) : its[id][j][1] = "rule"}} :
             id \in DOMAIN its}

\* The state after a pass.
Loaded(st, next) ==
    /\ rule_sets' = st.rule_sets
    /\ items' = st.items
    /\ output' = st.output
    /\ pool' = pool \cup RulesHeld(st.items)
    /\ pc' = next
    /\ UNCHANGED <<returned, config, dry_run, non_interactive, fix, repo_index,
                   pending, rule_index, rule_results, results, calls>>

FirstPass ==
    /\ pc = "first pass"
    /\ Loaded(first_pass(config.rule_sets, 1, Registry), "second pass")

SecondPass ==
    /\ pc = "second pass"
    /\ Loaded(second_pass(config.rule_sets, 1, Registry), "third pass")

ThirdPass ==
    /\ pc = "third pass"
    /\ Loaded(third_pass(config.rule_sets, 1, Registry), "loaded")

NextLoad == FirstPass \/ SecondPass \/ ThirdPass

\* A RuleManager after discovery, about to load a configuration.
InitLoad ==
    /\ items = (DiscoveredRuleSetId :> [i \in 1..Len(DiscoveredRules) |->
                                          RuleItem(DiscoveredRules[i])])
    /\ pool = Range(DiscoveredRules)
    /\ returned = <<>>
    /\ rule_sets = (DiscoveredRuleSetId :> DiscoveredRuleSetId)
    /\ \E entries \in Configurations :
          config = [default_rule_set |-> "", repository_rule_sets |-> <<>>,
                    rule_sets |-> entries]
    /\ dry_run = FALSE
    /\ non_interactive = FALSE
    /\ fix = FALSE
    /\ pc = "first pass"
    /\ repo_index = 0
    /\ pending = <<>>
    /\ rule_index = 0
    /\ rule_results = <<>>
    /\ results = <<>>
    /\ calls = <<>>
    /\ output = <<>>

SpecLoad == InitLoad /\ [][NextLoad]_vars

(* ---------------------------------------------------------------------- *)
(* Properties of the composition                                          *)
(* ---------------------------------------------------------------------- *)

NoDupIds(seq) == \A i, j \in 1..Len(seq) : seq[i].rule_id = seq[j].rule_id => i = j

RECURSIVE IsSubseq(_, _)
IsSubseq(a, b) ==
    IF a = <<>> THEN TRUE
    ELSE IF b = <<>> THEN FALSE
    ELSE IF Head(a) = Head(b) THEN IsSubseq(Tail(a), Tail(b))
    ELSE IsSubseq(a, Tail(b))

\* The raw depth-first flattening of the tree: no deduplication at any level.
RECURSIVE RawFlatten(_)
RECURSIVE RawCollect(_, _)
RawCollect(its, k) ==
    IF k > Len(its) THEN <<>>
    ELSE (IF its[k][1] = "rule" THEN <<its[k][2]>> ELSE RawFlatten(its[k][2]))
         \o RawCollect(its, k + 1)

RawFlatten(rule_set) == RawCollect(items[rule_set], 1)

\* Positions of rule_set's child list holding a Rule with the given id.
OwnPositions(rule_set, id) ==
    {k \in 1..Len(items[rule_set]) :
        /\ items[rule_set][k][1] = "rule"
        /\ items[rule_set][k][2].rule_id = id}

\* Positions of rule_set's child list holding a nested RuleSet under which
\* (at any depth) a Rule with the given id is defined.
NestedPositions(rule_set, id) ==
    {k \in 1..Len(items[rule_set]) :
        /\ items[rule_set][k][1] = "set"
        /\ \E t \in Nested(items[rule_set][k][2]) : OwnPositions(t, id) # {}}

\* The Rule objects with the given id held directly by proper descendants.
DescendantRules(rule_set, id) ==
    UNION {{items[t][k][2] : k \in OwnPositions(t, id)} :
             t \in Nested(rule_set) \ {rule_set}}

Exclusive(a, b) ==
    \/ b.rule_id \in a.mutually_exclusive_with
    \/ a.rule_id \in b.mutually_exclusive_with

Max(S) == CHOOSE x \in S : \A y \in S : y <= x

\* The rules of the resolved sequence carrying the given id.
Resolved(rule_set, id) == {r \in Range(rules(rule_set)) : r.rule_id = id}

\* C1: the sequence returned by rules() holds at most one rule per rule_id,
\* for every acyclic tree (Spec).
C1_AtMostOnePerId == \A s \in DOMAIN items : NoDupIds(rules(s))

\* A set nested under two parents, two levels deep, so that its rule is
\* collected twice.
C1_Witness ==
    /\ items["RS003"] = <<RuleItem(Rule("R001", "first", {}))>>
    /\ items["RS002"] = <<RuleSetItem("RS003")>>
    /\ items["RS001"] = <<RuleSetItem("RS003"), RuleSetItem("RS002")>>
    /\ Len(RawFlatten("RS001")) = 2
    /\ Len(rules("RS001")) = 1

\* C2: when no rule id is repeated in the tree under a RuleSet, rules()
\* yields exactly the rules of the tree, each once, in insertion order, a
\* nested set's rules at the position where the set was added (Spec).
C2_InsertionOrder ==
    \A s \in DOMAIN items : NoDupIds(RawFlatten(s)) => rules(s) = RawFlatten(s)

\* test_rule_set_preserves_order: a rule added after the nested set comes
\* after the nested set's rules.
C2_Witness ==
    /\ items["RS001"] = <<RuleItem(Rule("R002", "first", {})),
                          RuleSetItem("RS002"),
                          RuleItem(Rule("R003", "first", {}))>>
    /\ items["RS002"] = <<RuleItem(Rule("R001", "first", {}))>>
    /\ RuleIdsOf(rules("RS001")) = <<"R002", "R001", "R003">>

\* C3 as stated: a rule id defined directly in an ancestor and under a nested
\* RuleSet resolves to exactly one rule, the descendant's, in every order of
\* the ancestor's child list.
C3_DescendantAlwaysWins ==
    \A s \in DOMAIN items : \A id \in RuleIds :
        (OwnPositions(s, id) # {} /\ NestedPositions(s, id) # {})
        => /\ Cardinality(Resolved(s, id)) = 1
           /\ Resolved(s, id) \subseteq DescendantRules(s, id)

\* C3 amended: exactly one rule with that id is yielded, the one occurring
\* last in the ancestor's child list: the descendant's when a nested set
\* defining the id was added after the ancestor's last own rule with it, the
\* ancestor's own last rule with it otherwise (Spec).
C3_LastOccurrenceWins ==
    \A s \in DOMAIN items : \A id \in RuleIds :
        (OwnPositions(s, id) # {} /\ NestedPositions(s, id) # {})
        => /\ Cardinality(Resolved(s, id)) = 1
           /\ Max(NestedPositions(s, id)) > Max(OwnPositions(s, id))
                => Resolved(s, id) \subseteq DescendantRules(s, id)
           /\ Max(NestedPositions(s, id)) < Max(OwnPositions(s, id))
                => Resolved(s, id) = {items[s][Max(OwnPositions(s, id))][2]}

\* The ancestor's own rule first, then a set whose nested set redefines it.
C3_Witness ==
    /\ items["RS001"] = <<RuleItem(Rule("R001", "first", {})), RuleSetItem("RS002")>>
    /\ items["RS002"] = <<RuleSetItem("RS003")>>
    /\ items["RS003"] = <<RuleItem(Rule("R001", "second", {}))>>
    /\ rules("RS001") = <<Rule("R001", "second", {})>>

\* C4: effective_rules() never yields two distinct rules one of which
\* declares the other in mutually_exclusive_with (SpecExclusive).
C4_NoExclusivePair ==
    \A s \in DOMAIN items :
        LET eff == effective_rules(s)
        IN \A i, j \in 1..Len(eff) : i # j => ~Exclusive(eff[i], eff[j])

\* A resolved sequence with an exclusion declared by the earlier rule only
\* and one declared by the later rule only.
C4_Witness ==
    \E s \in DOMAIN items :
        LET all == rules(s)
        IN /\ Len(all) = 3
           /\ all[2].rule_id \in all[1].mutually_exclusive_with
           /\ all[1].rule_id \notin all[2].mutually_exclusive_with
           /\ all[2].rule_id \in all[3].mutually_exclusive_with
           /\ Len(effective_rules(s)) < 3

\* C5 as stated: of every mutually exclusive pair of the resolved sequence
\* the later rule is kept and the earlier one dropped.
C5_LaterAlwaysKept ==
    \A s \in DOMAIN items :
        LET all == rules(s)
            eff == Range(effective_rules(s))
        IN \A i, j \in 1..Len(all) :
              (i < j /\ Exclusive(all[i], all[j]))
              => (all[j] \in eff /\ all[i] \notin eff)

\* C5 amended: of every mutually exclusive pair of the resolved sequence the
\* earlier rule is dropped whenever the later one is kept, and the later one
\* is kept unless it is itself mutually exclusive with a kept rule occurring
\* after it (SpecExclusive).
C5_LaterKeptUnlessExcluded ==
    \A s \in DOMAIN items :
        LET all == rules(s)
            eff == Range(effective_rules(s))
        IN \A i, j \in 1..Len(all) :
              (i < j /\ Exclusive(all[i], all[j]))
              => /\ all[j] \in eff => all[i] \notin eff
                 /\ all[j] \notin eff
                      => \E k \in (j + 1)..Len(all) :
                            Exclusive(all[j], all[k]) /\ all[k] \in eff

\* A chain: the first excludes the second, the second excludes the third.
C5_Witness ==
    \E s \in DOMAIN items :
        LET all == rules(s)
        IN /\ Len(all) = 3
           /\ Exclusive(all[1], all[2])
           /\ Exclusive(all[2], all[3])
           /\ ~Exclusive(all[1], all[3])
           /\ effective_rules(s) = <<all[1], all[3]>>

\* The resolved sequence with the declaration 'i excludes j' moved to rule j.
MoveDeclaration(all, i, j) ==
    [k \in 1..Len(all) |->
        IF k = i
        THEN [all[k] EXCEPT !.mutually_exclusive_with = @ \ {all[j].rule_id}]
        ELSE IF k = j
        THEN [all[k] EXCEPT !.mutually_exclusive_with = @ \cup {all[i].rule_id}]
        ELSE all[k]]

C8_Subsequence ==
    \A s \in DOMAIN items :
        /\ IsSubseq(effective_rules(s), rules(s))
        /\ IsSubseq(rules(s), Collect(items[s], 1))

\* Both steps drop something and keep at least two rules.
C8_Witness ==
    \E s \in DOMAIN items :
        /\ Len(rules(s)) < Len(Collect(items[s], 1))
        /\ Len(effective_rules(s)) < Len(rules(s))
        /\ Len(effective_rules(s)) >= 2

(* ---------------------------------------------------------------------- *)
(* Properties of the execution engine                                     *)
(* ---------------------------------------------------------------------- *)

Contains(message, text) == \E k \in 1..Len(message) : message[k] = text

\* The result currently recorded for a rule of a repository: in the map
\* returned by check_repository once the repository is finished, in the
\* map being built before.
Recorded(r, id) ==
    IF r \in DOMAIN results THEN results[r][id] ELSE rule_results[id]

\* The resolved sequence check_repository iterates for a repository.
ResolvedFor(r) == rules(get_rule_set_for_repository(r)[2])

\* Call i is the first call made for its rule in its repository.
IsInitialCheck(i) ==
    /\ calls[i][1] = "check"
    /\ \A j \in 1..(i - 1) : ~(calls[j][2] = calls[i][2] /\ calls[j][3] = calls[i][3])

\* C9: when a rule's initial check raises, the result recorded for the rule
\* is FAILED with the exception text in its message and fix_available false,
\* no prompt, fix or recheck is made for it, and every later rule of the
\* resolved sequence is checked (SpecLinter).
C9_CheckErrorIsolated ==
    \A i \in 1..Len(calls) :
        (IsInitialCheck(i) /\ calls[i][4][1] = "raise")
        => LET r == calls[i][2]
               id == calls[i][3]
               rec == Recorded(r, id)
               all == ResolvedFor(r)
           IN /\ rec.result = "FAILED"
              /\ Contains(rec.message, calls[i][4][2])
              /\ rec.fix_available = FALSE
              /\ \A j \in 1..Len(calls) :
                    j # i => ~(calls[j][2] = r /\ calls[j][3] = id)
              /\ r \in DOMAIN results
                   => \A m, n \in 1..Len(all) :
                         (all[m].rule_id = id /\ m < n)
                         => \E j \in (i + 1)..Len(calls) :
                               /\ calls[j][1] = "check"
                               /\ calls[j][2] = r
                               /\ calls[j][3] = all[n].rule_id

\* The check of the first of two rules raised, the second rule was checked
\* and the repository is finished.
C9_Witness ==
    /\ Len(calls) >= 2
    /\ calls[1] = <<"check", "repo1", "R001", <<"raise", "timeout">>>>
    /\ calls[2][1] = "check" /\ calls[2][3] = "R002"
    /\ "repo1" \in DOMAIN results
    /\ results["repo1"]["R001"] = RuleExecutionFailed("timeout")

\* C10: a Linter constructed with fix=False never prompts, never invokes a
\* rule's fix, and records for every rule the result of its initial check.
C10_NoFixWithoutFlag ==
    ~fix
    => /\ \A i \in 1..Len(calls) : calls[i][1] \notin {"input", "fix"}
       /\ \A i \in 1..Len(calls) :
             (IsInitialCheck(i) /\ calls[i][4][1] = "return")
             => Recorded(calls[i][2], calls[i][3]) = calls[i][4][2]

\* The calls made for a rule of a repository.
CallsFor(r, id) == {i \in 1..Len(calls) : calls[i][2] = r /\ calls[i][3] = id}

Count(op, r, id) == Cardinality({i \in CallsFor(r, id) : calls[i][1] = op})

\* The result check_repository stores for the outcome of an initial check.
StoredFor(outcome) ==
    IF outcome[1] = "raise"
    THEN RuleCheckResult("FAILED", <<"Rule execution failed: ", outcome[2]>>, FALSE)
    ELSE outcome[2]

\* The outcome of the initial check of a rule of a repository.
InitialOutcome(r, id) ==
    calls[CHOOSE i \in CallsFor(r, id) : IsInitialCheck(i)][4]

\* check_repository returned normally for the repository.
Completed(r) == r \in DOMAIN results /\ "error" \notin DOMAIN results[r]

OutputHas(kind, r, id) == \E k \in 1..Len(output) : output[k] = <<kind, r, id>>

\* The rule with the given id of the given repository is the one in progress.
InProgress(r, id) ==
    /\ pc \in {"prompt", "fix", "recheck"}
    /\ repo = r
    /\ rule.rule_id = id

YesAnswers == {"y", "Y", "yes", "Yes", "YES"}

\* C11: with dry_run=True no fix is invoked and no prompt issued, whatever
\* the other flags, the rule set and the check results; each rule is checked
\* exactly once and the result recorded is that check's result (SpecLinter).
C11_DryRun ==
    dry_run
    => /\ \A i \in 1..Len(calls) :
             /\ calls[i][1] = "check"
             /\ IsInitialCheck(i)
             /\ Recorded(calls[i][2], calls[i][3]) = StoredFor(calls[i][4])
       /\ \A k \in 1..Len(Repositories) :
             Completed(Repositories[k])
             => LET all == ResolvedFor(Repositories[k])
                IN /\ DOMAIN results[Repositories[k]] = Range(RuleIdsOf(all))
                   /\ \A m \in 1..Len(all) :
                         Count("check", Repositories[k], all[m].rule_id) = 1

\* A finished dry run with fixing requested, non-interactive, in which a
\* check reported FAILED with a fix available.
C11_Witness ==
    /\ dry_run /\ fix /\ non_interactive
    /\ pc = "done"
    /\ Completed("repo1")
    /\ "R001" \in DOMAIN results["repo1"]
    /\ results["repo1"]["R001"] = RuleCheckResult("FAILED", <<"checked">>, TRUE)
    /\ Count("check", "repo1", "R001") = 1

\* C12: in interactive mode, an answer other than 'y' or 'yes' (in any case),
\* the empty answer included, is followed by no fix and no recheck of the
\* rule, and the recorded result stays the result of the initial check
\* (SpecLinter).
C12_DeclineKeepsResult ==
    \A i \in 1..Len(calls) :
        (calls[i][1] = "input" /\ calls[i][4] \notin YesAnswers)
        => LET r == calls[i][2]
               id == calls[i][3]
           IN /\ ~non_interactive /\ ~dry_run
              /\ Count("fix", r, id) = 0
              /\ Count("check", r, id) = 1
              /\ Count("input", r, id) = 1
              /\ ~InProgress(r, id)
              /\ InitialOutcome(r, id)[1] = "return"
              /\ Recorded(r, id) = InitialOutcome(r, id)[2]

\* Fixing requested, a FAILED check with a fix available, the empty answer.
C12_Witness ==
    /\ fix /\ ~non_interactive /\ ~dry_run
    /\ Len(calls) = 2
    /\ calls[1] = <<"check", "repo1", "R001",
                    <<"return", RuleCheckResult("FAILED", <<"checked">>, TRUE)>>>>
    /\ calls[2] = <<"input", "repo1", "R001", "">>
    /\ Recorded("repo1", "R001") = RuleCheckResult("FAILED", <<"checked">>, TRUE)

\* C13: non-interactive, fixing requested, no dry run: no prompt is ever
\* issued, and for every rule whose check returned FAILED with a fix
\* available the fix is the next call and is invoked exactly once
\* (SpecLinter).
C13_NonInteractiveFix ==
    (non_interactive /\ fix /\ ~dry_run)
    => /\ \A i \in 1..Len(calls) : calls[i][1] # "input"
       /\ \A i \in 1..Len(calls) :
             (/\ IsInitialCheck(i)
              /\ calls[i][4] = <<"return", RuleCheckResult("FAILED", <<"checked">>, TRUE)>>)
             => IF i = Len(calls)
                THEN pc = "fix" /\ InProgress(calls[i][2], calls[i][3])
                ELSE /\ calls[i + 1][1] = "fix"
                     /\ calls[i + 1][2] = calls[i][2]
                     /\ calls[i + 1][3] = calls[i][3]
                     /\ Count("fix", calls[i][2], calls[i][3]) = 1

\* The first rule failed with a fix available and its fix was invoked.
C13_Witness ==
    /\ non_interactive /\ fix /\ ~dry_run
    /\ Len(calls) >= 2
    /\ calls[1] = <<"check", "repo1", "R001",
                    <<"return", RuleCheckResult("FAILED", <<"checked">>, TRUE)>>>>
    /\ calls[2][1] = "fix"
    /\ Count("fix", "repo1", "R001") = 1
    /\ pc = "done"

\* C14: after fix returned success the next call is check for the same
\* rule, the result recorded is the one that recheck returned, and nothing
\* more is called for the rule, a second fix included (SpecLinter).
C14_RecheckRecorded ==
    \A i \in 1..Len(calls) :
        (calls[i][1] = "fix" /\ calls[i][4] = "fixed")
        => LET r == calls[i][2]
               id == calls[i][3]
           IN IF i = Len(calls)
              THEN pc = "recheck" /\ InProgress(r, id)
              ELSE /\ calls[i + 1][1] = "check"
                   /\ calls[i + 1][2] = r
                   /\ calls[i + 1][3] = id
                   /\ calls[i + 1][4][1] = "return"
                        => Recorded(r, id) = calls[i + 1][4][2]
                   /\ \A j \in (i + 2)..Len(calls) :
                         ~(calls[j][2] = r /\ calls[j][3] = id)
                   /\ Count("fix", r, id) = 1

\* Three fixed rules whose rechecks returned PASSED, FAILED with a fix
\* available, and SKIPPED.
C14_Witness ==
    /\ pc = "done"
    /\ Completed("repo1") /\ Completed("repo2")
    /\ DOMAIN results["repo1"] = {"R001", "R002"}
    /\ DOMAIN results["repo2"] = {"R001"}
    /\ Count("fix", "repo1", "R001") = 1
    /\ Count("fix", "repo1", "R002") = 1
    /\ Count("fix", "repo2", "R001") = 1
    /\ Count("check", "repo1", "R001") = 2
    /\ Count("check", "repo1", "R002") = 2
    /\ Count("check", "repo2", "R001") = 2
    /\ InitialOutcome("repo1", "R001")[1] = "return"
    /\ InitialOutcome("repo1", "R001")[2].result = "FAILED"
    /\ results["repo1"]["R001"] = RuleCheckResult("PASSED", <<"checked">>, FALSE)
    /\ results["repo1"]["R002"] = RuleCheckResult("FAILED", <<"checked">>, TRUE)
    /\ results["repo2"]["R001"] = RuleCheckResult("SKIPPED", <<"checked">>, FALSE)

\* C15: with fixing requested, when a check returned FAILED with a fix
\* available, fix returned success and the recheck raises, the result
\* recorded for the rule reflects the recheck error (it carries the
\* exception text) and is not the stale result of the check made before the
\* fix; later rules are still processed (SpecLinter).
C15_RecheckErrorRecorded ==
    \A i \in 1..(Len(calls) - 1) :
        (/\ fix
         /\ calls[i][1] = "fix"
         /\ calls[i][4] = "fixed"
         /\ InitialOutcome(calls[i][2], calls[i][3])
               = <<"return", RuleCheckResult("FAILED", <<"checked">>, TRUE)>>
         /\ calls[i + 1][1] = "check"
         /\ calls[i + 1][4][1] = "raise")
        => LET r == calls[i][2]
               id == calls[i][3]
           IN /\ Recorded(r, id) # RuleCheckResult("FAILED", <<"checked">>, TRUE)
              /\ Contains(Recorded(r, id).message, calls[i + 1][4][2])
              /\ ~InProgress(r, id)

\* The position of a rule id in the resolved sequence of a repository.
PositionIn(r, id) ==
    LET all == ResolvedFor(r)
    IN CHOOSE m \in 1..Len(all) : all[m].rule_id = id

\* C16: when an invoked fix raises or returns failure, the rule is not
\* rechecked, the recorded result stays the initial check's result, the two
\* cases print different lines ("Fix error" / "Fix failed"), and the next
\* rule of the repository is checked next (SpecLinter).
C16_FixFailureKeepsResult ==
    \A i \in 1..Len(calls) :
        (calls[i][1] = "fix" /\ calls[i][4] \in {"raised", "failed"})
        => LET r == calls[i][2]
               id == calls[i][3]
               all == ResolvedFor(r)
               m == PositionIn(r, id)
           IN /\ Count("check", r, id) = 1
              /\ \A j \in (i + 1)..Len(calls) : ~(calls[j][2] = r /\ calls[j][3] = id)
              /\ Recorded(r, id) = StoredFor(InitialOutcome(r, id))
              /\ OutputHas("Fix error", r, id) <=> calls[i][4] = "raised"
              /\ OutputHas("Fix failed", r, id) <=> calls[i][4] = "failed"
              /\ IF m = Len(all)
                 THEN Completed(r)
                 ELSE IF i = Len(calls)
                      THEN pc = "check" /\ repo = r /\ rule_index = m + 1
                      ELSE /\ calls[i + 1][1] = "check"
                           /\ calls[i + 1][2] = r
                           /\ calls[i + 1][3] = all[m + 1].rule_id

\* A repository whose first rule's fix raised and whose second rule's fix
\* returned failure: both rules checked once, both initial results kept.
C16_Witness ==
    /\ pc = "done"
    /\ Completed("repo1")
    /\ DOMAIN results["repo1"] = {"R001", "R002"}
    /\ \E i, j \in 1..Len(calls) :
          /\ i < j
          /\ calls[i] = <<"fix", "repo1", "R001", "raised">>
          /\ calls[j] = <<"fix", "repo1", "R002", "failed">>
    /\ Count("check", "repo1", "R001") = 1
    /\ Count("check", "repo1", "R002") = 1
    /\ results["repo1"]["R001"] = RuleCheckResult("FAILED", <<"checked">>, TRUE)
    /\ results["repo1"]["R002"] = RuleCheckResult("FAILED", <<"checked">>, TRUE)
    /\ OutputHas("Fix error", "repo1", "R001")
    /\ OutputHas("Fix failed", "repo1", "R002")

\* C17: a prompt is issued and a fix invoked only for a rule whose initial
\* check returned FAILED with fix_available=True; never after PASSED or
\* SKIPPED (whatever the flag) or FAILED without a fix (SpecLinter).
C17_FixOnlyAfterFailed ==
    \A i \in 1..Len(calls) :
        calls[i][1] \in {"input", "fix"}
        => /\ InitialOutcome(calls[i][2], calls[i][3])[1] = "return"
           /\ InitialOutcome(calls[i][2], calls[i][3])[2].result = "FAILED"
           /\ InitialOutcome(calls[i][2], calls[i][3])[2].fix_available

\* No call of check, input or fix was made for a rule of the repository.
NoCallsFor(r) == \A i \in 1..Len(calls) : calls[i][2] # r

\* The entry of the repository in the result map is the "no rule set" error.
HasNoRuleSetError(r) ==
    /\ r \in DOMAIN results
    /\ "error" \in DOMAIN results[r]
    /\ results[r].error = <<"No rule set found for repository">>

\* C18: a repository for which get_rule_set_for_repository finds no rule
\* set gets the "No rule set found ..." error entry, none of its rules is
\* checked or fixed, and the loop goes on: the entry is there as soon as the
\* loop is past the repository, and the batch only ends past the last
\* repository (SpecLinter).
C18_NoRuleSetEntry ==
    \A k \in 1..Len(Repositories) :
        get_rule_set_for_repository(Repositories[k]) = None
        => /\ NoCallsFor(Repositories[k])
           /\ k < repo_index <=> HasNoRuleSetError(Repositories[k])
           /\ k >= repo_index => Repositories[k] \notin DOMAIN results
           /\ pc = "done" => repo_index = Len(Repositories) + 1

\* The first repository has no rule set, the second one was checked after.
C18_Witness ==
    /\ pc = "done"
    /\ get_rule_set_for_repository("repo1") = None
    /\ HasNoRuleSetError("repo1")
    /\ NoCallsFor("repo1")
    /\ get_rule_set_for_repository("repo2") # None
    /\ Completed("repo2")
    /\ Count("check", "repo2", "R001") = 1

\* The identifier selected for a repository: the repository-specific one
\* when configured, the default one otherwise.
ChosenId(name) ==
    IF name \in DOMAIN config.repository_rule_sets
    THEN config.repository_rule_sets[name]
    ELSE config.default_rule_set

\* C19: the repository-specific identifier is used when one is configured
\* and the default only when none is; when the chosen identifier is not
\* registered the outcome is "no rule set": the repository gets the error
\* entry and none of the default rule set's rules is run (SpecLinter).
C19_ChosenIdOnly ==
    \A k \in 1..Len(Repositories) :
        /\ k < repo_index
           => get_rule_set_for_repository(Repositories[k])
                 = IF ChosenId(Repositories[k]) \in DOMAIN rule_sets
                   THEN <<ChosenId(Repositories[k]), rule_sets[ChosenId(Repositories[k])]>>
                   ELSE None
        /\ (k < repo_index /\ ChosenId(Repositories[k]) \notin DOMAIN rule_sets)
           => HasNoRuleSetError(Repositories[k]) /\ NoCallsFor(Repositories[k])

\* C20: lint_repositories never aborts: whatever the rules do, the loop is
\* never stuck before its return, every repository the loop is past has an
\* entry in the result map, and at the return every repository of the list
\* has one (SpecLinter).
C20_NeverAborts ==
    /\ pc # "done" => ENABLED NextLinter
    /\ \A k \in 1..Len(Repositories) :
          k < repo_index <=> Repositories[k] \in DOMAIN results
    /\ pc = "done" => \A k \in 1..Len(Repositories) : Repositories[k] \in DOMAIN results
    /\ pc \in {"check", "prompt", "fix", "recheck"}
          => repo_index \in 1..Len(Repositories) /\ rule_index \in 1..Len(pending)

\* The batch returned after a setup failure in the first repository and,
\* in the second, a fix that succeeded followed by a raising recheck.
C20_Witness ==
    /\ pc = "done"
    /\ "repo1" \in DOMAIN results
    /\ "error" \in DOMAIN results["repo1"]
    /\ results["repo1"].error[1] = "Failed to check repository: "
    /\ Completed("repo2")
    /\ Len(calls) = 3
    /\ calls[1][1] = "check" /\ calls[1][2] = "repo2"
    /\ calls[2] = <<"fix", "repo2", "R001", "fixed">>
    /\ calls[3][1] = "check" /\ calls[3][4][1] = "raise"

\* The ids of the first n rules of the sequence being iterated.
DoneIds(n) == {pending[m].rule_id : m \in 1..n}

\* C21: when check_repository returned normally, the keys of the
\* repository's result map are exactly the ids of the resolved sequence of
\* its rule set, whatever the checks, fixes and rechecks did; while the loop
\* runs, the map holds exactly the rules reached so far (SpecLinter).
C21_OneEntryPerRule ==
    /\ \A k \in 1..Len(Repositories) :
          Completed(Repositories[k])
          => /\ get_rule_set_for_repository(Repositories[k]) # None
             /\ DOMAIN results[Repositories[k]]
                   = Range(RuleIdsOf(ResolvedFor(Repositories[k])))
    /\ pc = "check" => DOMAIN rule_results = DoneIds(rule_index - 1)
    /\ pc \in {"prompt", "fix", "recheck"} => DOMAIN rule_results = DoneIds(rule_index)

\* A finished repository with two rules: the first one's check raised, the
\* second one was fixed and its recheck raised.
C21_Witness ==
    /\ pc = "done"
    /\ Completed("repo1")
    /\ Len(ResolvedFor("repo1")) = 2
    /\ DOMAIN results["repo1"] = {"R001", "R002"}
    /\ InitialOutcome("repo1", "R001")[1] = "raise"
    /\ Count("fix", "repo1", "R002") = 1
    /\ Count("check", "repo1", "R002") = 2
    /\ \E i \in CallsFor("repo1", "R002") :
          ~IsInitialCheck(i) /\ calls[i][1] = "check" /\ calls[i][4][1] = "raise"

\* The position of a repository in the list.
RepoIndexOf(r) == CHOOSE k \in 1..Len(Repositories) : Repositories[k] = r

\* The stage of a call within the processing of its rule.
Stage(i) ==
    IF calls[i][1] = "check" THEN (IF IsInitialCheck(i) THEN 1 ELSE 4)
    ELSE IF calls[i][1] = "input" THEN 2
    ELSE 3

\* Call i + 1 follows call i in the order of the run: a later stage of the
\* same rule, or the initial check of the next rule of the repository, or,
\* after the repository's last rule, of the first rule of a later one.
InOrder(i) ==
    LET r == calls[i][2]
        id == calls[i][3]
        r2 == calls[i + 1][2]
        id2 == calls[i + 1][3]
    IN IF r2 = r /\ id2 = id
       THEN Stage(i + 1) > Stage(i)
       ELSE /\ Stage(i + 1) = 1
            /\ IF r2 = r
               THEN PositionIn(r, id2) = PositionIn(r, id) + 1
               ELSE /\ RepoIndexOf(r2) > RepoIndexOf(r)
                    /\ PositionIn(r, id) = Len(ResolvedFor(r))
                    /\ PositionIn(r2, id2) = 1

\* C22: the calls of a run form one sequence in which repositories appear in
\* list order, the rules of a repository in resolved order without gaps, and
\* the calls of one rule in the order check, prompt, fix, recheck, all
\* before the next rule's check. The log only grows by appending, so every
\* pair of consecutive calls is the last pair of some reachable state
\* (SpecLinter).
C22_SequentialOrder ==
    /\ Len(calls) = 1 => PositionIn(calls[1][2], calls[1][3]) = 1 /\ Stage(1) = 1
    /\ Len(calls) > 1 => InOrder(Len(calls) - 1)
    /\ Len(calls) > 0
       => LET last == calls[Len(calls)]
          IN /\ RepoIndexOf(last[2]) <= repo_index
             /\ RepoIndexOf(last[2]) = repo_index
                   => pc # "select" /\ PositionIn(last[2], last[3]) <= rule_index

\* Two repositories, the first with two rules: R001 is checked, prompted,
\* fixed and rechecked before R002 is checked, and repo2 comes last.
C22_Witness ==
    /\ pc = "done"
    /\ Len(calls) = 6
    /\ calls[1][1] = "check" /\ calls[1][2] = "repo1" /\ calls[1][3] = "R001"
    /\ calls[2] = <<"input", "repo1", "R001", "y">>
    /\ calls[3] = <<"fix", "repo1", "R001", "fixed">>
    /\ calls[4][1] = "check" /\ calls[4][2] = "repo1" /\ calls[4][3] = "R001"
    /\ calls[5][1] = "check" /\ calls[5][2] = "repo1" /\ calls[5][3] = "R002"
    /\ calls[6][1] = "check" /\ calls[6][2] = "repo2" /\ calls[6][3] = "R001"
    /\ \A i \in 1..5 : InOrder(i)

\* C29: there is no retry: for each rule of a repository check is invoked at
\* most twice and, once check_repository returned, at least once; fix and the
\* prompt at most once; and a second check only directly after the rule's
\* fix returned success. The counts of a rule change only when a call for it
\* is appended, so they are stated for the rule of the last call (SpecLinter).
C29_NoRetry ==
    /\ Len(calls) > 0
       => LET i == Len(calls)
          IN /\ Count("check", calls[i][2], calls[i][3]) \in {1, 2}
             /\ Count("fix", calls[i][2], calls[i][3]) <= 1
             /\ Count("input", calls[i][2], calls[i][3]) <= 1
             /\ (calls[i][1] = "check" /\ ~IsInitialCheck(i))
                => calls[i - 1] = <<"fix", calls[i][2], calls[i][3], "fixed">>
    /\ (pc = "select" /\ repo_index > 1 /\ Completed(Repositories[repo_index - 1]))
       => \A id \in Range(RuleIdsOf(ResolvedFor(Repositories[repo_index - 1]))) :
             Count("check", Repositories[repo_index - 1], id) \in {1, 2}

\* A rule whose fix succeeded and whose recheck still reports FAILED with a
\* fix available, next to a rule whose fix returned failure: two checks and
\* one fix for the first, one check and one fix for the second.
C29_Witness ==
    /\ pc = "done"
    /\ Completed("repo1")
    /\ DOMAIN results["repo1"] = {"R001", "R002"}
    /\ results["repo1"]["R001"] = RuleCheckResult("FAILED", <<"checked">>, TRUE)
    /\ Count("check", "repo1", "R001") = 2
    /\ Count("fix", "repo1", "R001") = 1
    /\ Count("input", "repo1", "R001") = 1
    /\ Count("check", "repo1", "R002") = 1
    /\ \E i \in 1..Len(calls) : calls[i] = <<"fix", "repo1", "R002", "failed">>

\* The sequence with, of every rule id, only the last occurrence.
LastOccurrences(seq) ==
    LET keep == {i \in 1..Len(seq) :
                   \A j \in (i + 1)..Len(seq) : seq[j].rule_id # seq[i].rule_id}
        nth(n) == CHOOSE i \in keep : Cardinality({j \in keep : j < i}) = n - 1
    IN [n \in 1..Cardinality(keep) |-> seq[nth(n)]]

OwnIds(rule_set) ==
    {items[rule_set][k][2].rule_id :
       k \in {j \in 1..Len(items[rule_set]) : items[rule_set][j][1] = "rule"}}

\* A call returned and the tree is the one the call saw.
CallStep == returned' # <<>> /\ (returned' # returned \/ items' # items)

EntryIds == {config.rule_sets[k].rule_set_id : k \in 1..Len(config.rule_sets)}

\* The RuleSet object is registered under some id.
Registered(rule_set) == \E id \in DOMAIN rule_sets : rule_sets[id] = rule_set

NamesUnregisteredRule(e) == \E i \in 1..Len(e.rules) : e.rules[i] \notin RegisteredRuleIds

\* Every reference of the entry with the given id resolves, and so does
\* every reference of the entries it nests, to the given depth.
RECURSIVE Resolves(_, _)
Resolves(id, depth) ==
    \/ id = DiscoveredRuleSetId
    \/ /\ depth > 0
       /\ \E k \in 1..Len(config.rule_sets) :
             LET e == config.rule_sets[k]
             IN /\ e.rule_set_id = id
                /\ e.rules # <<>> \/ e.rule_sets # <<>>
                /\ ~NamesUnregisteredRule(e)
                /\ \A n \in Range(e.rule_sets) : Resolves(n, depth - 1)

\* The children of the RuleSet built for an entry all of whose references
\* resolve.
ChildrenOf(e) ==
    [i \in 1..Len(e.rules) |-> RuleItem(Rule(e.rules[i], "first", {}))]
    \o [i \in 1..Len(e.rule_sets) |-> RuleSetItem(e.rule_sets[i])]

\* C23: after load_rule_sets_from_config of a configuration that defines no
\* id already registered, an entry whose rule list names an unregistered
\* rule id, or whose only members are nested ids that are neither configured
\* nor registered, is absent from the registry, and an entry whose
\* references all resolve is registered with its rules and nested sets
\* (SpecLoad).
C23_UnresolvableAbsent ==
    (pc = "loaded" /\ DiscoveredRuleSetId \notin EntryIds)
    => \A k \in 1..Len(config.rule_sets) :
          LET e == config.rule_sets[k]
          IN /\ (\/ NamesUnregisteredRule(e)
                 \/ /\ e.rules = <<>>
                    /\ e.rule_sets # <<>>
                    /\ \A n \in Range(e.rule_sets) :
                          n \notin EntryIds \cup {DiscoveredRuleSetId})
                => e.rule_set_id \notin DOMAIN rule_sets
             /\ Resolves(e.rule_set_id, Len(config.rule_sets))
                => /\ e.rule_set_id \in DOMAIN rule_sets
                   /\ items[rule_sets[e.rule_set_id]] = ChildrenOf(e)

\* C24: after load_rule_sets_from_config of a configuration that names
\* registered rule ids only and defines no id already registered, every
\* configured entry still in the registry holds a rule or a nested rule set
\* that is itself still registered (SpecLoad).
C24_NoEmptyEntry ==
    (/\ pc = "loaded"
     /\ DiscoveredRuleSetId \notin EntryIds
     /\ \A k \in 1..Len(config.rule_sets) : ~NamesUnregisteredRule(config.rule_sets[k]))
    => \A id \in EntryIds \cap DOMAIN rule_sets :
          \E i \in 1..Len(items[rule_sets[id]]) :
             LET child == items[rule_sets[id]][i]
             IN child[1] = "rule" \/ Registered(child[2])

\* The raw depth-first flattening of a RuleSet in a given set of objects.
RECURSIVE RawFlattenIn(_, _)
RECURSIVE RawCollectIn(_, _, _)
RawCollectIn(its, children, k) ==
    IF k > Len(children) THEN <<>>
    ELSE (IF children[k][1] = "rule" THEN <<children[k][2]>>
          ELSE RawFlattenIn(its, children[k][2]))
         \o RawCollectIn(its, children, k + 1)

RawFlattenIn(its, rule_set) == RawCollectIn(its, its[rule_set], 1)

\* The registry before the load.
RegistryBefore ==
    [rule_sets |-> (DiscoveredRuleSetId :> DiscoveredRuleSetId),
     items |-> (DiscoveredRuleSetId :> [i \in 1..Len(DiscoveredRules) |->
                                          RuleItem(DiscoveredRules[i])]),
     output |-> <<>>]

\* The three passes on the entries in another order.
LoadReordered(f) ==
    LET entries == [i \in 1..Len(config.rule_sets) |-> config.rule_sets[f[i]]]
    IN third_pass(entries, 1,
          second_pass(entries, 1, first_pass(entries, 1, RegistryBefore)))

\* C25: the ids registered by load_rule_sets_from_config and the resolved
\* rule sequence of each are the same for every ordering of the entries of
\* a configuration that defines no id already registered (SpecLoad).
C25_OrderIndependent ==
    (pc = "loaded" /\ DiscoveredRuleSetId \notin EntryIds)
    => \A f \in Permutations(1..Len(config.rule_sets)) :
          LET alt == LoadReordered(f)
          IN /\ DOMAIN alt.rule_sets = DOMAIN rule_sets
             /\ \A id \in DOMAIN rule_sets :
                   LastOccurrences(RawFlattenIn(alt.items, alt.rule_sets[id]))
                      = rules(rule_sets[id])

\* C30: the rule set that was registered before load_rule_sets_from_config
\* stays registered with an unchanged resolved rule sequence, also when the
\* configuration defines an entry with its id (SpecLoad).
C30_ExistingUntouched ==
    /\ DiscoveredRuleSetId \in DOMAIN rule_sets
    /\ rules(rule_sets[DiscoveredRuleSetId]) = DiscoveredRules

====
